---- MODULE Spec2Model ----
(***************************************************************************)
(* State-machine model of the GUI element framework of nunuStudio          *)
(* (Element, LoadingModal, TabElement, TabButton), of the LeapMotion       *)
(* device binding and of the Editor's file loaders.  Every object is one   *)
(* record-valued variable; every method, DOM event handler or callback is  *)
(* one action.                                                             *)
(*                                                                         *)
(* A CSS length is the pair <<n, "px">> (the code writes n + "px"); an     *)
(* unset style property is <<0, "">>.                                      *)
(***************************************************************************)
EXTENDS Integers, Sequences, FiniteSets, TLC

VARIABLES
    modal,       \* the LoadingModal object and the style of its DOM element
    parentSize,  \* size of the modal's parent element
    modalOp,     \* the last LoadingModal operation (history)
    element,     \* one Element: its fields and the style of its DOM element
    elementOp,   \* the last layout operation on the element (history)
    tree,        \* parent field of every Element and children of every DOM node
    treeOp,      \* the last attach/destroy operation (history)
    group,       \* the tab container: its tabs in order, placement, selection
    closeable,   \* closeable field of every tab
    dragState,   \* dragState of every tab button
    drag,        \* the drag in progress: its dataTransfer and the button under it
    tabOp,       \* the last tab operation (history)
    page,        \* one TabElement: active, its update method, queued frame callbacks
    pageOp,      \* the last activate/deactivate/frame step (history)
    leap,        \* the LeapMotion object: data, gesture flags, gesturesEnabled
    leapOp,      \* the last LeapMotion operation (history)
    editor       \* the Editor's loads in progress and the calls they have made

modalVars  == <<modal, parentSize, modalOp>>
layoutVars == <<element, elementOp>>
treeVars   == <<tree, treeOp>>
tabVars    == <<group, closeable, dragState, drag, tabOp>>
pageVars   == <<page, pageOp>>
leapVars   == <<leap, leapOp>>
loadVars   == <<editor>>

vars == <<modal, parentSize, modalOp, element, elementOp, tree, treeOp,
         group, closeable, dragState, drag, tabOp, page, pageOp,
         leap, leapOp, editor>>

\* What the operations of one subsystem leave alone.
notModal  == <<layoutVars, treeVars, tabVars, pageVars, leapVars, loadVars>>
notLayout == <<modalVars, treeVars, tabVars, pageVars, leapVars, loadVars>>
notTree   == <<modalVars, layoutVars, tabVars, pageVars, leapVars, loadVars>>
notTabs   == <<modalVars, layoutVars, treeVars, pageVars, leapVars, loadVars>>
notPage   == <<modalVars, layoutVars, treeVars, tabVars, leapVars, loadVars>>
notLeap   == <<modalVars, layoutVars, treeVars, tabVars, pageVars, loadVars>>
notLoad   == <<modalVars, layoutVars, treeVars, tabVars, pageVars, leapVars>>

----------------------------------------------------------------------------
(* Bounds *)

MaxCounter == 3     \* show() is not called with counter at this value
MaxTicks   == 3     \* animation frames of the loading icon that are counted
MaxPx      == 2     \* largest pixel length used for sizes and positions
MaxTabs    == 3     \* tabs the container is created with
MaxPending == 3     \* activate() is not called with this many callbacks queued
MaxFrames  == 4     \* animation frames that are counted
MaxGestures == 2    \* gestures in one frame of the Leap device
MaxLoads   == 2     \* calls of the Editor's loaders

Px(n)   == <<n, "px">>
NoStyle == <<0, "">>

Vectors == {<<x, y>> : x \in {0, MaxPx}, y \in {0, 1}}

----------------------------------------------------------------------------
(* LoadingModal *)

\* AnimationTimer.start / stop and EventManager.create / destroy: the flag that
\* says whether the animation callback, or the window resize listener, is live.
AnimationTimer_start == TRUE
AnimationTimer_stop  == FALSE
EventManager_create  == TRUE
EventManager_destroy == FALSE

\* Element constructor followed by the LoadingModal constructor.
LoadingModal_new ==
    [counter   |-> 0,
     visible   |-> TRUE,
     display   |-> "",
     running   |-> FALSE,
     listening |-> FALSE,
     rotation  |-> 0,
     size      |-> <<0, 0>>,
     position  |-> <<0, 0>>,
     width     |-> NoStyle,
     height    |-> NoStyle,
     top       |-> NoStyle,
     left      |-> NoStyle]

\* Element.updateVisibility on the modal.
LoadingModal_updateVisibility(m) ==
    [m EXCEPT !.display = IF m.visible THEN "block" ELSE "none"]

\* LoadingModal.updateSize: copies the parent's size, then Element.updateSize.
LoadingModal_updateSize(m, psize) ==
    [m EXCEPT !.size = psize, !.width = Px(psize[1]), !.height = Px(psize[2])]

\* Element.updatePosition, mode TOP_LEFT.
LoadingModal_updatePosition(m) ==
    [m EXCEPT !.top = Px(m.position[2]), !.left = Px(m.position[1])]

\* Element.updateInterface on the modal.
LoadingModal_updateInterface(m, psize) ==
    LET v == LoadingModal_updateVisibility(m)
    IN  IF v.visible
        THEN LoadingModal_updatePosition(LoadingModal_updateSize(v, psize))
        ELSE v

\* LoadingModal.show
LoadingModal_show(m, psize) ==
    LET c == [m EXCEPT !.counter = m.counter + 1]
    IN  IF c.counter = 1
        THEN LoadingModal_updateInterface(
                 [c EXCEPT !.running = AnimationTimer_start,
                           !.listening = EventManager_create,
                           !.visible = TRUE], psize)
        ELSE c

\* Element.setVisibility on the modal.
LoadingModal_setVisibility(m, v) ==
    LoadingModal_updateVisibility([m EXCEPT !.visible = v])

LoadingModal_hide_noClamp(m, force) ==
    LET c == [m EXCEPT !.counter = m.counter - 1]
    IN  IF c.counter < 1 \/ force = TRUE
        THEN LoadingModal_setVisibility(
                 [c EXCEPT !.running = AnimationTimer_stop,
                           !.listening = EventManager_destroy], FALSE)
        ELSE c

LoadingModal_hide_ignoreForce(m, force) ==
    LET c == [m EXCEPT !.counter = m.counter - 1]
    IN  IF c.counter < 1
        THEN LoadingModal_setVisibility(
                 [c EXCEPT !.counter = 0,
                           !.running = AnimationTimer_stop,
                           !.listening = EventManager_destroy], FALSE)
        ELSE c

LoadingModal_hide_lateHide(m, force) ==
    LET c == [m EXCEPT !.counter = m.counter - 1]
    IN  IF c.counter < 2 \/ force = TRUE
        THEN LoadingModal_setVisibility(
                 [c EXCEPT !.counter = 0,
                           !.running = AnimationTimer_stop,
                           !.listening = EventManager_destroy], FALSE)
        ELSE c

\* LoadingModal.hide
LoadingModal_hide(m, force) ==
    LET c == [m EXCEPT !.counter = m.counter - 1]
    IN  IF c.counter < 1 \/ force = TRUE
        THEN LoadingModal_setVisibility(
                 [c EXCEPT !.counter = 0,
                           !.running = AnimationTimer_stop,
                           !.listening = EventManager_destroy], FALSE)
        ELSE c

\* History: the operation just executed, its argument, the modal before it,
\* and whether the last show() or hide() before this operation was hide(true).
ModalOp(op, force) ==
    [op |-> op, force |-> force, before |-> modal,
     afterForce |-> \/ (modalOp.op = "hide" /\ modalOp.force)
                    \/ (modalOp.op \in {"tick", "resize"} /\ modalOp.afterForce)]

ModalOp_new ==
    [op |-> "new", force |-> FALSE, before |-> LoadingModal_new,
     afterForce |-> FALSE]

Show ==
    /\ modal.counter < MaxCounter
    /\ modal' = LoadingModal_show(modal, parentSize)
    /\ modalOp' = ModalOp("show", FALSE)
    /\ UNCHANGED <<parentSize, notModal>>

Hide ==
    \E force \in BOOLEAN :
        /\ modal' = LoadingModal_hide(modal, force)
        /\ modalOp' = ModalOp("hide", force)
        /\ UNCHANGED <<parentSize, notModal>>

\* The AnimationTimer callback: runs on an animation frame while the timer runs.
TimerTick ==
    /\ modal.running
    /\ modal.rotation < MaxTicks
    /\ modal' = [modal EXCEPT !.rotation = modal.rotation + 1]
    /\ modalOp' = ModalOp("tick", FALSE)
    /\ UNCHANGED <<parentSize, notModal>>

\* The window is resized: the parent gets a new size and, while the manager's
\* listener is installed, the modal's resize handler calls updateInterface.
WindowResize ==
    \E s \in Vectors :
        /\ s # parentSize
        /\ parentSize' = s
        /\ modal' = IF modal.listening
                    THEN LoadingModal_updateInterface(modal, s)
                    ELSE modal
        /\ modalOp' = ModalOp("resize", FALSE)
        /\ UNCHANGED notModal

ModalNext == Show \/ Hide \/ TimerTick \/ WindowResize

----------------------------------------------------------------------------
(* Element: visibility, size and position *)

TOP_LEFT     == 0
TOP_RIGHT    == 1
BOTTOM_LEFT  == 2
BOTTOM_RIGHT == 3
Modes == {TOP_LEFT, TOP_RIGHT, BOTTOM_LEFT, BOTTOM_RIGHT}

Sizes     == {<<0, 0>>, <<MaxPx, 1>>}
Positions == {<<0, 0>>, <<1, MaxPx>>}

\* Element constructor.  calls is the trace of the update methods run by the
\* operation in progress (it is emptied when an operation starts).
Element_new ==
    [visible  |-> TRUE,
     size     |-> <<0, 0>>,
     position |-> <<0, 0>>,
     mode     |-> TOP_LEFT,
     display  |-> "",
     width    |-> NoStyle,
     height   |-> NoStyle,
     top      |-> NoStyle,
     bottom   |-> NoStyle,
     left     |-> NoStyle,
     right    |-> NoStyle,
     calls    |-> <<>>]

Began(e) == [e EXCEPT !.calls = <<>>]

\* Element.updateVisibility
Element_updateVisibility(e) ==
    [e EXCEPT !.display = IF e.visible THEN "block" ELSE "none",
              !.calls = Append(@, "updateVisibility")]

\* Element.setVisibility
Element_setVisibility(e, v) ==
    Element_updateVisibility([e EXCEPT !.visible = v])

\* Element.updatePosition, called without the mode argument
Element_updatePosition(e) ==
    LET y == IF e.mode = TOP_LEFT \/ e.mode = TOP_RIGHT
             THEN [e EXCEPT !.top = Px(e.position[2])]
             ELSE [e EXCEPT !.bottom = Px(e.position[2])]
        x == IF e.mode = TOP_LEFT \/ e.mode = BOTTOM_LEFT
             THEN [y EXCEPT !.left = Px(e.position[1])]
             ELSE [y EXCEPT !.right = Px(e.position[1])]
    IN  [x EXCEPT !.calls = Append(@, "updatePosition")]

\* Element.updatePosition(mode)
Element_updatePositionMode(e, mode) ==
    Element_updatePosition([e EXCEPT !.mode = mode])

\* Element.updateSize
Element_updateSize(e) ==
    [e EXCEPT !.width = Px(e.size[1]),
              !.height = Px(e.size[2]),
              !.calls = Append(@, "updateSize")]

\* Element.setMode
Element_setMode(e, mode) ==
    [e EXCEPT !.mode = mode, !.bottom = NoStyle, !.top = NoStyle,
              !.right = NoStyle, !.left = NoStyle]

Element_updateInterface_always(e) ==
    Element_updatePosition(Element_updateSize(Element_updateVisibility(e)))

\* Element.updateInterface
Element_updateInterface(e) ==
    LET v == Element_updateVisibility(e)
    IN  IF v.visible
        THEN Element_updatePosition(Element_updateSize(v))
        ELSE v

UpdateInterface ==
    /\ element' = Element_updateInterface(Began(element))
    /\ elementOp' = "updateInterface"
    /\ UNCHANGED notLayout

UpdateVisibility ==
    /\ element' = Element_updateVisibility(Began(element))
    /\ elementOp' = "updateVisibility"
    /\ UNCHANGED notLayout

SetVisibility ==
    \E v \in BOOLEAN :
        /\ element' = Element_setVisibility(Began(element), v)
        /\ elementOp' = "setVisibility"
        /\ UNCHANGED notLayout

UpdateSize ==
    /\ element' = Element_updateSize(Began(element))
    /\ elementOp' = "updateSize"
    /\ UNCHANGED notLayout

UpdatePosition ==
    /\ element' = Element_updatePosition(Began(element))
    /\ elementOp' = "updatePosition"
    /\ UNCHANGED notLayout

UpdatePositionMode ==
    \E m \in Modes :
        /\ element' = Element_updatePositionMode(Began(element), m)
        /\ elementOp' = "updatePosition"
        /\ UNCHANGED notLayout

SetMode ==
    \E m \in Modes :
        /\ element' = Element_setMode(Began(element), m)
        /\ elementOp' = "setMode"
        /\ UNCHANGED notLayout

\* Writes to the public fields visible, size and position.
SetVisible ==
    \E v \in BOOLEAN :
        /\ element' = [Began(element) EXCEPT !.visible = v]
        /\ elementOp' = "visible"
        /\ UNCHANGED notLayout

SetSize ==
    \E v \in Sizes :
        /\ element' = [Began(element) EXCEPT !.size = v]
        /\ elementOp' = "size"
        /\ UNCHANGED notLayout

SetPosition ==
    \E v \in Positions :
        /\ element' = [Began(element) EXCEPT !.position = v]
        /\ elementOp' = "position"
        /\ UNCHANGED notLayout

LayoutNext ==
    \/ UpdateInterface \/ UpdateVisibility \/ SetVisibility \/ UpdateSize
    \/ UpdatePosition \/ UpdatePositionMode \/ SetMode
    \/ SetVisible \/ SetSize \/ SetPosition

----------------------------------------------------------------------------
(* Element: attachTo, destroy, removeAllChildren *)

Null      == "null"
Undefined == "undefined"

Elems      == {"A", "B"}             \* the Elements that are attached and destroyed
Containers == {"P1", "P2", "body"}   \* P1, P2 are Elements, body is a DOM node
IsElement(p) == p \in {"P1", "P2"}   \* parent.isElement === true

\* No Element attached; error says that the operation in progress threw,
\* warned that it called console.warn.
Tree_empty ==
    [parent   |-> [e \in Elems |-> Null],
     children |-> [c \in Containers |-> {}],
     error    |-> FALSE,
     warned   |-> FALSE]

Quiet(t) == [t EXCEPT !.error = FALSE, !.warned = FALSE]

\* Node.contains(child), for the DOM node of container p
DOM_contains(t, p, e) == e \in t.children[p]

\* Node.removeChild(child): throws when child is not a child of the node
DOM_removeChild(t, p, e) ==
    IF e \in t.children[p]
    THEN [t EXCEPT !.children[p] = @ \ {e}]
    ELSE [t EXCEPT !.error = TRUE]

\* Node.appendChild(child): moves the child out of the node that holds it
DOM_appendChild(t, p, e) ==
    [t EXCEPT !.children = [c \in Containers |->
                               IF c = p THEN t.children[c] \cup {e}
                                        ELSE t.children[c] \ {e}]]

Element_destroy_keepsParent(t, e) ==
    IF t.parent[e] # Null
    THEN LET w == IF IsElement(t.parent[e]) THEN t ELSE [t EXCEPT !.warned = TRUE]
         IN  IF DOM_contains(w, w.parent[e], e)
             THEN DOM_removeChild(w, w.parent[e], e)
             ELSE w
    ELSE t

\* Element.destroy (the two branches differ in the node used and the warning)
Element_destroy(t, e) ==
    IF t.parent[e] # Null
    THEN IF IsElement(t.parent[e])
         THEN IF DOM_contains(t, t.parent[e], e)
              THEN [DOM_removeChild(t, t.parent[e], e) EXCEPT !.parent[e] = Null]
              ELSE t
         ELSE LET w == [t EXCEPT !.warned = TRUE]
              IN  IF DOM_contains(w, w.parent[e], e)
                  THEN [DOM_removeChild(w, w.parent[e], e) EXCEPT !.parent[e] = Null]
                  ELSE w
    ELSE t

Element_attachTo_noUndefinedTest(t, e, p) ==
    IF t.parent[e] = p
    THEN t
    ELSE LET d == IF t.parent[e] # Null THEN Element_destroy(t, e) ELSE t
         IN  IF p = Undefined
             THEN [d EXCEPT !.parent[e] = Null, !.error = TRUE]
             ELSE IF IsElement(p)
                  THEN DOM_appendChild([d EXCEPT !.parent[e] = p], p, e)
                  ELSE DOM_appendChild([d EXCEPT !.parent[e] = p, !.warned = TRUE], p, e)

\* Element.attachTo
Element_attachTo(t, e, p) ==
    IF t.parent[e] = p \/ p = Undefined
    THEN t
    ELSE LET d == IF t.parent[e] # Null THEN Element_destroy(t, e) ELSE t
             q == [d EXCEPT !.parent[e] = p]
         IN  IF IsElement(p)
             THEN DOM_appendChild(q, p, e)
             ELSE DOM_appendChild([q EXCEPT !.warned = TRUE], p, e)

\* Element.removeAllChildren, on the Element p
Element_removeAllChildren(t, p) ==
    [t EXCEPT !.children[p] = {}]

\* new Element(parent) for A and B: the constructor attaches when parent is given
Tree_new(pa, pb) ==
    Quiet(Element_attachTo(Element_attachTo(Tree_empty, "A", pa), "B", pb))

TreeOp(op, e, p) ==
    [op |-> op, el |-> e, arg |-> p, before |-> tree,
     prev |-> [op |-> treeOp.op, el |-> treeOp.el]]

TreeOp_new(t) ==
    [op |-> "new", el |-> "", arg |-> "", before |-> t,
     prev |-> [op |-> "", el |-> ""]]

AttachTo ==
    \E e \in Elems, p \in Containers \cup {Undefined} :
        /\ tree' = Element_attachTo(Quiet(tree), e, p)
        /\ treeOp' = TreeOp("attachTo", e, p)
        /\ UNCHANGED notTree

Destroy ==
    \E e \in Elems :
        /\ tree' = Element_destroy(Quiet(tree), e)
        /\ treeOp' = TreeOp("destroy", e, "")
        /\ UNCHANGED notTree

RemoveAllChildren ==
    \E p \in {c \in Containers : IsElement(c)} :
        /\ tree' = Element_removeAllChildren(Quiet(tree), p)
        /\ treeOp' = TreeOp("removeAllChildren", p, "")
        /\ UNCHANGED notTree

TreeNext == AttachTo \/ Destroy \/ RemoveAllChildren

----------------------------------------------------------------------------------------------------------------------------------------------------------------------------------------------------------------------------
(* TabElement, TabButton and their container *)

NONE     == 0       \* TabButton.NONE
PREVIOUS == 1       \* TabButton.PREVIOUS
NEXT     == 2       \* TabButton.NEXT

Tabs  == 1..MaxTabs \* identities of the TabElements (each with its TabButton)
NoTab == 0          \* null where a tab is expected

Placements == {"top", "bottom", "left", "right"}   \* TabGroup.TOP, ...

\* Mouse.LEFT, Mouse.MIDDLE, Mouse.RIGHT
Mouse_LEFT   == 0
Mouse_MIDDLE == 1
Mouse_RIGHT  == 2

\* Where a dragover event is on the button, in tenths of the button's size
\* along the placement axis (event.layerX or layerY against this.size).
Pointer == {0, 2, 5, 8, 10}

Digits == <<"0", "1", "2", "3", "4", "5", "6", "7", "8", "9">>

\* dataTransfer.setData stores the index as a string
IndexToString(n) == Digits[n + 1]

\* parseInt of such a string
ParseInt(str) == CHOOSE n \in 0..9 : Digits[n + 1] = str

Range(seq) == {seq[i] : i \in 1..Len(seq)}

\* Array.splice(i, 1) and Array.splice(i, 0, x), indices from 0
SpliceOut(seq, i) ==
    IF i >= 0 /\ i < Len(seq)
    THEN SubSeq(seq, 1, i) \o SubSeq(seq, i + 2, Len(seq))
    ELSE seq

SpliceIn(seq, i, x) ==
    LET k == IF i > Len(seq) THEN Len(seq) ELSE i
    IN  SubSeq(seq, 1, k) \o <<x>> \o SubSeq(seq, k + 1, Len(seq))

\* TabElement.index: the container keeps it equal to the tab's place, from 0
Index(g, t) == (CHOOSE i \in 1..Len(g.options) : g.options[i] = t) - 1

\* TabGroup.removeTab(tab)
TabGroup_removeTab(g, t) ==
    [g EXCEPT !.options = SelectSeq(g.options, LAMBDA x : x # t),
              !.selected = IF g.selected = t THEN NoTab ELSE g.selected]

\* TabGroup.selectTab(tab)
TabGroup_selectTab(g, t) == [g EXCEPT !.selected = t]

\* TabGroup.moveTabIndex(origin, destination): removes the tab at origin and
\* inserts it again at destination
TabGroup_moveTabIndex(g, origin, destination) ==
    IF origin >= 0 /\ origin < Len(g.options)
    THEN [g EXCEPT !.options =
             SpliceIn(SpliceOut(g.options, origin), destination,
                      g.options[origin + 1])]
    ELSE g

\* TabElement.close
TabElement_close(g, t) == TabGroup_removeTab(g, t)

\* TabButton: close.onclick
TabButton_close_onclick(g, t) == TabElement_close(g, t)

\* TabButton: element.onmousedown
TabButton_onmousedown(g, cl, t, which) ==
    LET button == which - 1
    IN  IF button = Mouse_LEFT
        THEN TabGroup_selectTab(g, t)
        ELSE IF cl[t] /\ button = Mouse_MIDDLE
             THEN TabGroup_removeTab(g, t)
             ELSE g

\* TabButton: element.ondragover; the new dragState of the button
TabButton_ondragover(placement, pos, onChild) ==
    IF placement = "top" \/ placement = "bottom"
    THEN IF pos > 8 \/ onChild THEN NEXT
         ELSE IF pos < 2 THEN PREVIOUS
         ELSE NONE
    ELSE IF pos > 7 \/ onChild THEN NEXT
         ELSE IF pos < 3 THEN PREVIOUS
         ELSE NONE

TabButton_ondrop_noShift(g, state, data, t) ==
    IF data # ""
    THEN LET index == ParseInt(data)
             ti    == Index(g, t)
         IN  IF index # ti
             THEN IF state = PREVIOUS
                  THEN TabGroup_moveTabIndex(g, index, ti)
                  ELSE IF state = NEXT
                       THEN TabGroup_moveTabIndex(g, index, ti + 1)
                       ELSE g
             ELSE g
    ELSE g

\* TabButton: element.ondrop, on the button of tab t whose dragState is state
TabButton_ondrop(g, state, data, t) ==
    IF data # ""
    THEN LET index == ParseInt(data)
             ti    == Index(g, t)
         IN  IF index # ti
             THEN IF state = PREVIOUS
                  THEN TabGroup_moveTabIndex(
                           g, index, IF index < ti THEN ti - 1 ELSE ti)
                  ELSE IF state = NEXT
                       THEN TabGroup_moveTabIndex(
                                g, index, IF index < ti THEN ti ELSE ti + 1)
                       ELSE g
             ELSE g
    ELSE g

NoDrag == [active |-> FALSE, data |-> "", source |-> NoTab, over |-> NoTab,
           dropped |-> FALSE]

\* History: the tab, the dragged tab, the dragState and the order of the tabs
\* before are kept for a drop only.
TabOp(op) ==
    [op |-> op, tab |-> NoTab, src |-> NoTab, state |-> NONE, before |-> <<>>]

\* TabElement.close(), called by the editor
Close ==
    \E t \in Range(group.options) :
        /\ ~drag.active
        /\ group' = TabElement_close(group, t)
        /\ tabOp' = TabOp("close")
        /\ UNCHANGED <<closeable, dragState, drag, notTabs>>

\* A click on the close image of the button of tab t
CloseClick ==
    \E t \in Range(group.options) :
        /\ ~drag.active
        /\ group' = TabButton_close_onclick(group, t)
        /\ tabOp' = TabOp("close")
        /\ UNCHANGED <<closeable, dragState, drag, notTabs>>

\* A mouse button goes down on the button of tab t (event.which is 1, 2 or 3)
MouseDown ==
    \E t \in Range(group.options), which \in 1..3 :
        /\ ~drag.active
        /\ group' = TabButton_onmousedown(group, closeable, t, which)
        /\ tabOp' = TabOp("mousedown")
        /\ UNCHANGED <<closeable, dragState, drag, notTabs>>

\* element.ondragstart on the button of tab s
DragStart ==
    \E s \in Range(group.options) :
        /\ ~drag.active
        /\ drag' = [active |-> TRUE, data |-> IndexToString(Index(group, s)),
                    source |-> s, over |-> NoTab, dropped |-> FALSE]
        /\ dragState' = [dragState EXCEPT ![s] = NONE]
        /\ tabOp' = TabOp("drag")
        /\ UNCHANGED <<group, closeable, notTabs>>

\* A drag that carries no tab (a file, a resource) enters the window
ForeignDragStart ==
    /\ ~drag.active
    /\ drag' = [active |-> TRUE, data |-> "", source |-> NoTab,
                over |-> NoTab, dropped |-> FALSE]
    /\ tabOp' = TabOp("drag")
    /\ UNCHANGED <<group, closeable, dragState, notTabs>>

\* element.ondragover on the button of tab t
DragOver ==
    \E t \in Range(group.options), pos \in Pointer, onChild \in BOOLEAN :
        /\ drag.active /\ ~drag.dropped
        /\ drag.over \in {NoTab, t}
        /\ dragState' = [dragState EXCEPT ![t] =
                            TabButton_ondragover(group.placement, pos, onChild)]
        /\ drag' = [drag EXCEPT !.over = t]
        /\ tabOp' = TabOp("drag")
        /\ UNCHANGED <<group, closeable, notTabs>>

\* element.ondragleave on the button of tab t
DragLeave ==
    \E t \in Range(group.options) :
        /\ drag.active /\ ~drag.dropped
        /\ drag.over = t
        /\ dragState' = [dragState EXCEPT ![t] = NONE]
        /\ drag' = [drag EXCEPT !.over = NoTab]
        /\ tabOp' = TabOp("drag")
        /\ UNCHANGED <<group, closeable, notTabs>>

\* element.ondrop on the button of tab t
Drop ==
    \E t \in Range(group.options) :
        /\ drag.active /\ ~drag.dropped
        /\ drag.over = t
        /\ group' = TabButton_ondrop(group, dragState[t], drag.data, t)
        /\ drag' = [drag EXCEPT !.over = NoTab, !.dropped = TRUE]
        /\ tabOp' = [op |-> "drop", tab |-> t, src |-> drag.source,
                     state |-> dragState[t], before |-> group.options]
        /\ UNCHANGED <<closeable, dragState, notTabs>>

\* element.ondragend on the button the drag started on; the drag is over
DragEnd ==
    /\ drag.active
    /\ drag.over = NoTab
    /\ dragState' = IF drag.source # NoTab
                    THEN [dragState EXCEPT ![drag.source] = NONE]
                    ELSE dragState
    /\ drag' = NoDrag
    /\ tabOp' = TabOp("drag")
    /\ UNCHANGED <<group, closeable, notTabs>>

TabsNext == Close \/ CloseClick \/ MouseDown

DragNext ==
    DragStart \/ ForeignDragStart \/ DragOver \/ DragLeave \/ Drop \/ DragEnd

----------------------------------------------------------------------------
(* TabElement: activate, deactivate and the update loop *)

\* TabElement constructor; hasUpdate says that the tab defines update().
\* pending counts the update callbacks queued with requestAnimationFrame,
\* called the update() calls made during the last animation frame.
TabElement_new(hasUpdate) ==
    [active    |-> FALSE,
     hasUpdate |-> hasUpdate,
     pending   |-> 0,
     called    |-> 0,
     frames    |-> 0]

\* TabElement.deactivate
TabElement_deactivate(t) == [t EXCEPT !.active = FALSE]

TabElement_activate_activeFirst(t) ==
    LET a == [t EXCEPT !.active = TRUE]
        d == IF a.active = TRUE THEN TabElement_deactivate(a) ELSE a
    IN  IF d.hasUpdate THEN [d EXCEPT !.pending = @ + 1] ELSE d

\* TabElement.activate
TabElement_activate(t) ==
    LET d == IF t.active = TRUE THEN TabElement_deactivate(t) ELSE t
        r == IF d.hasUpdate THEN [d EXCEPT !.pending = @ + 1] ELSE d
    IN  [r EXCEPT !.active = TRUE]

\* The update closure of activate: calls update(), queues itself again while
\* the tab is active.
TabElement_update(t) ==
    LET u == [t EXCEPT !.called = @ + 1]
    IN  IF u.active = TRUE THEN [u EXCEPT !.pending = @ + 1] ELSE u

RECURSIVE RunCallbacks(_, _)
RunCallbacks(t, n) ==
    IF n = 0 THEN t ELSE RunCallbacks(TabElement_update(t), n - 1)

\* One animation frame: the browser runs the callbacks queued before it.
AnimationFrame(t) ==
    RunCallbacks([t EXCEPT !.pending = 0, !.called = 0, !.frames = @ + 1],
                 t.pending)

Activate ==
    /\ page.pending < MaxPending
    /\ page' = TabElement_activate(page)
    /\ pageOp' = "activate"
    /\ UNCHANGED notPage

Deactivate ==
    /\ page' = TabElement_deactivate(page)
    /\ pageOp' = "deactivate"
    /\ UNCHANGED notPage

Frame ==
    /\ page.frames < MaxFrames
    /\ page' = AnimationFrame(page)
    /\ pageOp' = "frame"
    /\ UNCHANGED notPage

PageNext == Activate \/ Deactivate \/ Frame

----------------------------------------------------------------------------
(* LeapMotion: gesture flags *)

SWIPE       == 0
SWIPE_LEFT  == 1
SWIPE_RIGHT == 2
SWIPE_FRONT == 3
SWIPE_BACK  == 4
SWIPE_UP    == 5
SWIPE_DOWN  == 6
CIRCLE      == 7
SCREEN_TAP  == 8
KEY_TAP     == 9

GestureCount == 10                  \* length of this.gesture
Flags == 0..(GestureCount - 1)

\* The gestures a frame can hold: a type and, for a swipe, a direction.
Directions == {<<1, 1, 1>>, <<0, -1, -1>>}
Gestures ==
    {[type |-> "swipe", direction |-> d] : d \in Directions}
    \cup {[type |-> ty, direction |-> <<0, 0, 0>>] :
              ty \in {"circle", "keyTap", "screenTap"}}

GestureLists == UNION {[1..n -> Gestures] : n \in 0..MaxGestures}

\* this.data = null
NoFrame == [present |-> FALSE, valid |-> FALSE, gestures |-> <<>>]

\* The frames the Leap runtime hands to the callback of initialize.
Frames == {[present |-> TRUE, valid |-> v, gestures |-> gs] :
               v \in BOOLEAN, gs \in GestureLists}

\* LeapMotion constructor
LeapMotion_new(enabled) ==
    [gesturesEnabled |-> enabled,
     gesture         |-> [i \in Flags |-> FALSE],
     data            |-> NoFrame,
     initialized     |-> FALSE]

\* The callback of data.gestures.forEach in updateGestures
SetFlags(flags, g) ==
    IF g.type = "swipe"
    THEN LET a == [flags EXCEPT ![SWIPE] = TRUE]
             x == IF g.direction[1] > 0
                  THEN [a EXCEPT ![SWIPE_RIGHT] = TRUE]
                  ELSE [a EXCEPT ![SWIPE_LEFT] = TRUE]
             y == IF g.direction[2] > 0
                  THEN [x EXCEPT ![SWIPE_UP] = TRUE]
                  ELSE [x EXCEPT ![SWIPE_DOWN] = TRUE]
         IN  IF g.direction[3] > 0
             THEN [y EXCEPT ![SWIPE_FRONT] = TRUE]
             ELSE [y EXCEPT ![SWIPE_BACK] = TRUE]
    ELSE IF g.type = "circle" THEN [flags EXCEPT ![CIRCLE] = TRUE]
    ELSE IF g.type = "keyTap" THEN [flags EXCEPT ![KEY_TAP] = TRUE]
    ELSE IF g.type = "screenTap" THEN [flags EXCEPT ![SCREEN_TAP] = TRUE]
    ELSE flags

RECURSIVE ForEachGesture(_, _, _)
ForEachGesture(flags, gs, i) ==
    IF i > Len(gs) THEN flags
    ELSE ForEachGesture(SetFlags(flags, gs[i]), gs, i + 1)

LeapMotion_updateGestures_noClean(l) ==
    IF l.data.valid /\ Len(l.data.gestures) > 0
    THEN [l EXCEPT !.gesture = ForEachGesture(l.gesture, l.data.gestures, 1)]
    ELSE l

\* LeapMotion.updateGestures
LeapMotion_updateGestures(l) ==
    LET clean == [i \in Flags |-> FALSE]
    IN  IF l.data.valid /\ Len(l.data.gestures) > 0
        THEN [l EXCEPT !.gesture = ForEachGesture(clean, l.data.gestures, 1)]
        ELSE [l EXCEPT !.gesture = clean]

\* LeapMotion.update, as far as the gesture flags go (updatePoses and
\* updateDebugModel write the pose flags and the debug meshes only)
LeapMotion_update(l) ==
    IF l.data.present
    THEN IF l.gesturesEnabled THEN LeapMotion_updateGestures(l) ELSE l
    ELSE l

\* LeapMotion.checkGesture
LeapMotion_checkGesture(l, g) ==
    IF g \in DOMAIN l.gesture THEN l.gesture[g] ELSE FALSE

\* LeapMotion.initialize: starts the Leap loop that delivers the frames
Initialize ==
    /\ ~leap.initialized
    /\ leap' = [leap EXCEPT !.initialized = TRUE]
    /\ leapOp' = "initialize"
    /\ UNCHANGED notLeap

\* The callback given to Leap.loop: self.data = data
ReceiveFrame ==
    \E f \in Frames :
        /\ leap.initialized
        /\ leap' = [leap EXCEPT !.data = f]
        /\ leapOp' = "frame"
        /\ UNCHANGED notLeap

\* LeapMotion.update
Update ==
    /\ leap' = LeapMotion_update(leap)
    /\ leapOp' = "update"
    /\ UNCHANGED notLeap

\* A write to the public property gesturesEnabled
SetGesturesEnabled ==
    \E b \in BOOLEAN :
        /\ leap' = [leap EXCEPT !.gesturesEnabled = b]
        /\ leapOp' = "gesturesEnabled"
        /\ UNCHANGED notLeap

LeapNext == Initialize \/ ReceiveFrame \/ Update \/ SetGesturesEnabled

----------------------------------------------------------------------------
(* Editor loaders: loadModel, loadTexture, loadVideoTexture, loadAudio,    *)
(* loadFont.  A file name is the sequence of its dot-separated parts:      *)
(* "m.assimp.json" is <<"m", "assimp", "json">>.  Every call of a loader   *)
(* is one load; a load keeps the calls it has made on the Editor, on its   *)
(* FileReader and on the onLoad callback, in the order it made them.       *)

\* FileSystem.getFileExtension: the text after the last dot of the name.
FileSystem_getFileExtension(name) == name[Len(name)]

\* name.endsWith(".assimp.json")
EndsWith_assimp_json(name) ==
    /\ Len(name) >= 3
    /\ name[Len(name) - 1] = "assimp"
    /\ name[Len(name)] = "json"

ModelNames ==
    {<<"m", "gcode">>, <<"m", "obj">>, <<"m", "drc">>, <<"m", "assimp", "json">>,
     <<"m", "json">>, <<"m", "3mf">>, <<"m", "txt">>, <<"stl">>, <<"m">>}
TextureNames == {<<"t", "dds">>, <<"t", "tga">>, <<"t", "basis">>, <<"t", "png">>}
VideoNames   == {<<"v", "webm">>}
AudioNames   == {<<"a", "ogg">>}
FontNames    == {<<"f", "json">>, <<"f", "ttf">>}

ModalElem    == "A"    \* the Element that is the load's LoadingModal
DocumentBody == "P1"   \* the Element the modal is created in

\* The state of a load when its loader is entered: nothing read, no modal.
Load_new(loader, name, onLoad) ==
    [loader |-> loader,
     name   |-> name,
     onLoad |-> onLoad,            \* onLoad !== undefined
     phase  |-> "called",          \* "reading", "decoding", "done"
     modal  |-> LoadingModal_new,
     dom    |-> Tree_empty,
     calls  |-> <<>>]

Editor_new == [loads |-> <<>>]

Call(l, fn, arg) == [l EXCEPT !.calls = Append(@, [fn |-> fn, arg |-> arg])]
Done(l) == [l EXCEPT !.phase = "done"]

Editor_alert(l, message)      == Call(l, "alert", message)
Editor_addObject(l)           == Call(l, "addObject", "scene")
Editor_addAction(l, category) == Call(l, "addAction", category)

\* if(onLoad !== undefined) { onLoad(resource); }
OnLoad(l, resource) == IF l.onLoad THEN Call(l, "onLoad", resource) ELSE l

\* reader.readAsText(file) / reader.readAsArrayBuffer(file), file being a Blob
FileReader_read(l) == [Call(l, "read", "file") EXCEPT !.phase = "reading"]

\* new LoadingModal(DocumentBody)
LoadingModal_create(l) ==
    [l EXCEPT !.modal = LoadingModal_new,
              !.dom = Quiet(Element_attachTo(Tree_empty, ModalElem, DocumentBody))]

\* LoadingModal.destroy
LoadingModal_destroy(l) ==
    [l EXCEPT !.dom = Element_destroy(l.dom, ModalElem),
              !.modal = [@ EXCEPT !.counter = 0,
                                  !.running = AnimationTimer_stop,
                                  !.listening = EventManager_destroy]]

\* The branch of Editor.loadModel that the name selects.
Editor_loadModel_branch(name) ==
    LET extension == FileSystem_getFileExtension(name)
    IN  IF extension = "gcode" THEN "gcode"
        ELSE IF extension = "obj" THEN "obj"
        ELSE IF extension = "awd" THEN "awd"
        ELSE IF extension = "amf" THEN "amf"
        ELSE IF extension = "assimp" THEN "assimp"
        ELSE IF EndsWith_assimp_json(name) THEN "assimp.json"
        ELSE IF extension = "babylon" THEN "babylon"
        ELSE IF extension = "blend" THEN "blend"
        ELSE IF extension = "3ds" THEN "3ds"
        ELSE IF extension = "dae" THEN "dae"
        ELSE IF extension = "drc" THEN "drc"
        ELSE IF extension = "gltf" \/ extension = "glb" THEN "gltf"
        ELSE IF extension = "ply" THEN "ply"
        ELSE IF extension = "vtk" \/ extension = "vtp" THEN "vtk"
        ELSE IF extension = "prwm" THEN "prwm"
        ELSE IF extension = "wrl" \/ extension = "vrml" THEN "wrl"
        ELSE IF extension = "fbx" THEN "fbx"
        ELSE IF extension = "x" THEN "x"
        ELSE IF extension = "pcd" THEN "pcd"
        ELSE IF extension = "svg" THEN "svg"
        ELSE IF extension = "stl" THEN "stl"
        ELSE IF extension = "json" THEN "json"
        ELSE "unknown"

\* Branches whose onload has no try block, and branches whose parser hands the
\* object to a callback or a promise.
Uncaught == {"gcode"}
Deferred == {"blend", "drc", "gltf", "x"}

Editor_loadModel_keepsModal(name, psize, blob, mtlThrows) ==
    LET l == Load_new("loadModel", name, FALSE)
        m == [LoadingModal_create(l) EXCEPT !.modal = LoadingModal_show(@, psize)]
        branch == Editor_loadModel_branch(name)
    IN  IF branch = "unknown"
        THEN Done(Editor_alert(m, "unknownFileFormat"))
        ELSE LET o == IF branch = "obj" /\ mtlThrows
                      THEN Editor_alert(m, "errorLoadingFile")
                      ELSE m
             IN  IF blob
                 THEN FileReader_read(o)
                 ELSE Done(Editor_alert(LoadingModal_destroy(o), "errorLoadingFile"))

\* Editor.loadModel up to its return.  blob: the file is a Blob (the reader
\* throws a TypeError otherwise); mtlThrows: the search for the .mtl file of
\* an .obj file throws.
Editor_loadModel(name, psize, blob, mtlThrows) ==
    LET l == Load_new("loadModel", name, FALSE)
        m == [LoadingModal_create(l) EXCEPT !.modal = LoadingModal_show(@, psize)]
        branch == Editor_loadModel_branch(name)
    IN  IF branch = "unknown"
        THEN Done(Editor_alert(LoadingModal_destroy(m), "unknownFileFormat"))
        ELSE LET o == IF branch = "obj" /\ mtlThrows
                      THEN Editor_alert(m, "errorLoadingFile")
                      ELSE m
             IN  IF blob
                 THEN FileReader_read(o)
                 ELSE Done(Editor_alert(LoadingModal_destroy(o), "errorLoadingFile"))

\* Editor.addObject(obj, parent); modal.destroy();
Editor_loadModel_loaded(l) == Done(LoadingModal_destroy(Editor_addObject(l)))

\* reader.onload of Editor.loadModel; throws: the parser throws.
Editor_loadModel_onload(l, throws) ==
    LET branch == Editor_loadModel_branch(l.name)
    IN  IF branch \in Uncaught
        THEN IF throws THEN Done(l) ELSE Editor_loadModel_loaded(l)
        ELSE IF throws
             THEN Done(Editor_alert(l, "errorLoadingFile"))
             ELSE IF branch \in Deferred
                  THEN [l EXCEPT !.phase = "decoding"]
                  ELSE Editor_loadModel_loaded(l)

\* The callback of a deferred parser; fails: it is never called with an object.
Editor_loadModel_callback(l, fails) ==
    IF fails THEN Done(l) ELSE Editor_loadModel_loaded(l)

\* Editor.loadTexture, loadVideoTexture, loadAudio, loadFont up to their
\* return: a FileReader is created and started.
Editor_loadResource(loader, name, onLoad, blob) ==
    LET l == Load_new(loader, name, onLoad)
    IN  IF blob THEN FileReader_read(l) ELSE Done(l)

\* reader.onload of Editor.loadTexture.  In the basis branch the variable
\* texture of onload is never assigned: the promise's callback has its own.
Editor_loadTexture_onload(l, throws) ==
    LET extension == FileSystem_getFileExtension(l.name)
    IN  IF extension \in {"dds", "pvr", "ktx"}
        THEN IF throws THEN Done(l)
             ELSE Done(OnLoad(Editor_addAction(l, "textures"), "texture"))
        ELSE IF extension = "tga"
        THEN IF throws THEN Done(l)
             ELSE Done(OnLoad(Editor_addAction(Editor_addAction(l, "images"),
                                               "textures"), "texture"))
        ELSE IF extension = "basis"
        THEN IF throws THEN Done(l)
             ELSE [OnLoad(l, Undefined) EXCEPT !.phase = "decoding"]
        ELSE Done(OnLoad(Editor_addAction(Editor_addAction(l, "images"),
                                          "textures"), "texture"))

\* The promise of the basis loader settles.
Editor_loadTexture_then(l, fails) ==
    IF fails
    THEN Done(Editor_alert(l, "Error decoding basis texture."))
    ELSE Done(Editor_addAction(l, "textures"))

\* reader.onload of Editor.loadVideoTexture
Editor_loadVideoTexture_onload(l) ==
    Done(OnLoad(Editor_addAction(Editor_addAction(l, "videos"), "textures"),
                "texture"))

\* reader.onload of Editor.loadAudio
Editor_loadAudio_onload(l) ==
    Done(Editor_addAction(OnLoad(l, "audio"), "audio"))

\* reader.onload of Editor.loadFont; throws: JSON.parse throws.
Editor_loadFont_onload(l, throws) ==
    IF FileSystem_getFileExtension(l.name) = "json" /\ throws
    THEN Done(l)
    ELSE Done(Editor_addAction(OnLoad(l, "font"), "fonts"))

Started(l) == [editor EXCEPT !.loads = Append(@, l)]

Loads == 1..Len(editor.loads)

LoadModel ==
    \E name \in ModelNames, blob \in BOOLEAN, mtlThrows \in BOOLEAN :
        /\ Len(editor.loads) < MaxLoads
        /\ editor' = Started(Editor_loadModel(name, parentSize, blob, mtlThrows))
        /\ UNCHANGED notLoad

LoadTexture ==
    \E name \in TextureNames, onLoad \in BOOLEAN, blob \in BOOLEAN :
        /\ Len(editor.loads) < MaxLoads
        /\ editor' = Started(Editor_loadResource("loadTexture", name, onLoad, blob))
        /\ UNCHANGED notLoad

LoadVideoTexture ==
    \E name \in VideoNames, onLoad \in BOOLEAN, blob \in BOOLEAN :
        /\ Len(editor.loads) < MaxLoads
        /\ editor' = Started(Editor_loadResource("loadVideoTexture", name, onLoad, blob))
        /\ UNCHANGED notLoad

LoadAudio ==
    \E name \in AudioNames, onLoad \in BOOLEAN, blob \in BOOLEAN :
        /\ Len(editor.loads) < MaxLoads
        /\ editor' = Started(Editor_loadResource("loadAudio", name, onLoad, blob))
        /\ UNCHANGED notLoad

LoadFont ==
    \E name \in FontNames, onLoad \in BOOLEAN, blob \in BOOLEAN :
        /\ Len(editor.loads) < MaxLoads
        /\ editor' = Started(Editor_loadResource("loadFont", name, onLoad, blob))
        /\ UNCHANGED notLoad

\* The FileReader of a load has read the file: its onload handler runs.
ReaderOnload ==
    \E j \in Loads, throws \in BOOLEAN :
        LET l == editor.loads[j]
        IN  /\ l.phase = "reading"
            /\ editor' = [editor EXCEPT !.loads[j] =
                   CASE l.loader = "loadModel" -> Editor_loadModel_onload(l, throws)
                     [] l.loader = "loadTexture" -> Editor_loadTexture_onload(l, throws)
                     [] l.loader = "loadVideoTexture" -> Editor_loadVideoTexture_onload(l)
                     [] l.loader = "loadAudio" -> Editor_loadAudio_onload(l)
                     [] l.loader = "loadFont" -> Editor_loadFont_onload(l, throws)]
            /\ UNCHANGED notLoad

\* A deferred parser or decoder finishes.
ParserCallback ==
    \E j \in Loads, fails \in BOOLEAN :
        LET l == editor.loads[j]
        IN  /\ l.phase = "decoding"
            /\ editor' = [editor EXCEPT !.loads[j] =
                   IF l.loader = "loadModel"
                   THEN Editor_loadModel_callback(l, fails)
                   ELSE Editor_loadTexture_then(l, fails)]
            /\ UNCHANGED notLoad

LoadNext ==
    \/ LoadModel
    \/ LoadTexture
    \/ LoadVideoTexture
    \/ LoadAudio
    \/ LoadFont
    \/ ReaderOnload
    \/ ParserCallback

----
(* Specifications: one per subsystem, the other subsystems stay as constructed *)

ModalInit ==
    /\ modal = LoadingModal_new
    /\ parentSize \in Vectors
    /\ modalOp = ModalOp_new
    /\ element = Element_new
    /\ elementOp = "new"
    /\ tree = Tree_empty
    /\ treeOp = TreeOp_new(Tree_empty)
    /\ group = [options |-> <<>>, placement |-> "top", selected |-> NoTab]
    /\ closeable = [t \in Tabs |-> TRUE]
    /\ dragState = [t \in Tabs |-> NONE]
    /\ drag = NoDrag
    /\ tabOp = TabOp("new")
    /\ page = TabElement_new(FALSE)
    /\ pageOp = "new"
    /\ leap = LeapMotion_new(TRUE)
    /\ leapOp = "new"
    /\ editor = Editor_new

SpecModal == ModalInit /\ [][ModalNext]_vars

LayoutInit ==
    /\ element = Element_new
    /\ elementOp = "new"
    /\ modal = LoadingModal_new
    /\ parentSize = <<0, 0>>
    /\ modalOp = ModalOp_new
    /\ tree = Tree_empty
    /\ treeOp = TreeOp_new(Tree_empty)
    /\ group = [options |-> <<>>, placement |-> "top", selected |-> NoTab]
    /\ closeable = [t \in Tabs |-> TRUE]
    /\ dragState = [t \in Tabs |-> NONE]
    /\ drag = NoDrag
    /\ tabOp = TabOp("new")
    /\ page = TabElement_new(FALSE)
    /\ pageOp = "new"
    /\ leap = LeapMotion_new(TRUE)
    /\ leapOp = "new"
    /\ editor = Editor_new

SpecLayout == LayoutInit /\ [][LayoutNext]_vars

TreeInit ==
    /\ \E pa, pb \in Containers \cup {Undefined} : tree = Tree_new(pa, pb)
    /\ treeOp = TreeOp_new(tree)
    /\ modal = LoadingModal_new
    /\ parentSize = <<0, 0>>
    /\ modalOp = ModalOp_new
    /\ element = Element_new
    /\ elementOp = "new"
    /\ group = [options |-> <<>>, placement |-> "top", selected |-> NoTab]
    /\ closeable = [t \in Tabs |-> TRUE]
    /\ dragState = [t \in Tabs |-> NONE]
    /\ drag = NoDrag
    /\ tabOp = TabOp("new")
    /\ page = TabElement_new(FALSE)
    /\ pageOp = "new"
    /\ leap = LeapMotion_new(TRUE)
    /\ leapOp = "new"
    /\ editor = Editor_new

SpecTree == TreeInit /\ [][TreeNext]_vars

\* A container created with MaxTabs tabs, each closeable or not.
TabsInit ==
    /\ group = [options |-> [i \in 1..MaxTabs |-> i], placement |-> "top",
                selected |-> NoTab]
    /\ closeable \in [Tabs -> BOOLEAN]
    /\ dragState = [t \in Tabs |-> NONE]
    /\ drag = NoDrag
    /\ tabOp = TabOp("new")
    /\ modal = LoadingModal_new
    /\ parentSize = <<0, 0>>
    /\ modalOp = ModalOp_new
    /\ element = Element_new
    /\ elementOp = "new"
    /\ tree = Tree_empty
    /\ treeOp = TreeOp_new(Tree_empty)
    /\ page = TabElement_new(FALSE)
    /\ pageOp = "new"
    /\ leap = LeapMotion_new(TRUE)
    /\ leapOp = "new"
    /\ editor = Editor_new

SpecTabs == TabsInit /\ [][TabsNext]_vars

\* A container created with MaxTabs tabs, its buttons in a row ("top") or in a
\* column ("left"); the tabs are dragged and dropped.
DragInit ==
    /\ \E pl \in {"top", "left"} :
           group = [options |-> [i \in 1..MaxTabs |-> i], placement |-> pl,
                    selected |-> NoTab]
    /\ closeable = [t \in Tabs |-> TRUE]
    /\ dragState = [t \in Tabs |-> NONE]
    /\ drag = NoDrag
    /\ tabOp = TabOp("new")
    /\ modal = LoadingModal_new
    /\ parentSize = <<0, 0>>
    /\ modalOp = ModalOp_new
    /\ element = Element_new
    /\ elementOp = "new"
    /\ tree = Tree_empty
    /\ treeOp = TreeOp_new(Tree_empty)
    /\ page = TabElement_new(FALSE)
    /\ pageOp = "new"
    /\ leap = LeapMotion_new(TRUE)
    /\ leapOp = "new"
    /\ editor = Editor_new

SpecDrag == DragInit /\ [][DragNext]_vars

PageInit ==
    /\ \E u \in BOOLEAN : page = TabElement_new(u)
    /\ pageOp = "new"
    /\ modal = LoadingModal_new
    /\ parentSize = <<0, 0>>
    /\ modalOp = ModalOp_new
    /\ element = Element_new
    /\ elementOp = "new"
    /\ tree = Tree_empty
    /\ treeOp = TreeOp_new(Tree_empty)
    /\ group = [options |-> <<>>, placement |-> "top", selected |-> NoTab]
    /\ closeable = [t \in Tabs |-> TRUE]
    /\ dragState = [t \in Tabs |-> NONE]
    /\ drag = NoDrag
    /\ tabOp = TabOp("new")
    /\ leap = LeapMotion_new(TRUE)
    /\ leapOp = "new"
    /\ editor = Editor_new

SpecPage == PageInit /\ [][PageNext]_vars

LeapInit ==
    /\ \E b \in BOOLEAN : leap = LeapMotion_new(b)
    /\ leapOp = "new"
    /\ modal = LoadingModal_new
    /\ parentSize = <<0, 0>>
    /\ modalOp = ModalOp_new
    /\ element = Element_new
    /\ elementOp = "new"
    /\ tree = Tree_empty
    /\ treeOp = TreeOp_new(Tree_empty)
    /\ group = [options |-> <<>>, placement |-> "top", selected |-> NoTab]
    /\ closeable = [t \in Tabs |-> TRUE]
    /\ dragState = [t \in Tabs |-> NONE]
    /\ drag = NoDrag
    /\ tabOp = TabOp("new")
    /\ page = TabElement_new(FALSE)
    /\ pageOp = "new"
    /\ editor = Editor_new

SpecLeap == LeapInit /\ [][LeapNext]_vars

\* No load made yet; the document body has a size.
LoadInit ==
    /\ editor = Editor_new
    /\ parentSize = <<MaxPx, 1>>
    /\ modal = LoadingModal_new
    /\ modalOp = ModalOp_new
    /\ element = Element_new
    /\ elementOp = "new"
    /\ tree = Tree_empty
    /\ treeOp = TreeOp_new(Tree_empty)
    /\ group = [options |-> <<>>, placement |-> "top", selected |-> NoTab]
    /\ closeable = [t \in Tabs |-> TRUE]
    /\ dragState = [t \in Tabs |-> NONE]
    /\ drag = NoDrag
    /\ tabOp = TabOp("new")
    /\ page = TabElement_new(FALSE)
    /\ pageOp = "new"
    /\ leap = LeapMotion_new(TRUE)
    /\ leapOp = "new"

SpecLoad == LoadInit /\ [][LoadNext]_vars

----------------------------------------------------------------------------
(* Claims about LoadingModal, checked under SpecModal *)

ModalShown(m)  == m.visible /\ m.display = "block" /\ m.running /\ m.listening
ModalHidden(m) == ~m.visible /\ m.display = "none" /\ ~m.running /\ ~m.listening

\* C1: a hide() without the force argument hides the box (not visible, timer
\* stopped, resize listener removed) when the counter after the decrement is
\* below 1, and only then: issued with the counter at 2 or more it leaves the
\* box shown, its timer running and its listener installed.
C1_NestedHide ==
    (modalOp.op = "hide" /\ ~modalOp.force) =>
        /\ (modalOp.before.counter - 1 < 1) => ModalHidden(modal)
        /\ (modalOp.before.counter >= 2) =>
               /\ ModalShown(modal)
               /\ modal.counter = modalOp.before.counter - 1

C1_Witness ==
    /\ modalOp.op = "hide" /\ ~modalOp.force
    /\ modalOp.before.counter >= 2
    /\ modal.running /\ modal.visible

\* C2 (as claimed): every show() adds exactly 1 to the counter and every
\* hide() subtracts exactly 1 from it.
C2_Original ==
    /\ modalOp.op = "show" => modal.counter = modalOp.before.counter + 1
    /\ modalOp.op = "hide" => modal.counter = modalOp.before.counter - 1

\* C2 (amended): every show() adds exactly 1 to the counter; a hide() without
\* force subtracts exactly 1 when the counter was at least 1 and leaves it at 0
\* when it was 0; hide(true) sets it to 0; the counter is never negative.
C2_Amended ==
    /\ modal.counter >= 0
    /\ modalOp.op = "show" => modal.counter = modalOp.before.counter + 1
    /\ (modalOp.op = "hide" /\ ~modalOp.force) =>
           modal.counter = IF modalOp.before.counter >= 1
                           THEN modalOp.before.counter - 1
                           ELSE 0
    /\ (modalOp.op = "hide" /\ modalOp.force) => modal.counter = 0

C2_Witness ==
    /\ modalOp.op = "hide" /\ ~modalOp.force
    /\ modalOp.before.counter = 0
    /\ modal.counter = 0

\* C3: hide(true) leaves counter = 0, the timer stopped, the listener removed
\* and the box not visible, whatever the counter was; the next show() after it
\* displays the box again (counter 1, visible, timer running).
C3_ForceHide ==
    /\ (modalOp.op = "hide" /\ modalOp.force) =>
           (modal.counter = 0 /\ ModalHidden(modal))
    /\ (modalOp.op = "show" /\ modalOp.afterForce) =>
           (modal.counter = 1 /\ ModalShown(modal))

C3_Witness ==
    /\ modalOp.op = "show" /\ modalOp.afterForce
    /\ modalOp.before.counter = 0 /\ ~modalOp.before.visible
    /\ ModalShown(modal)

----------------------------------------------------------------------------
(* Claims about Element, checked under SpecLayout and SpecTree *)

\* C7: updateInterface() runs updateVisibility() first; when the element is
\* visible it then runs updateSize() and updatePosition(), in this order, and
\* when the element is not visible it runs neither, so the width, height, top,
\* bottom, left and right styles keep the values they had.
C7_UpdateInterface ==
    [][elementOp' = "updateInterface" =>
          /\ element'.display = (IF element.visible THEN "block" ELSE "none")
          /\ IF element.visible
             THEN /\ element'.calls =
                         <<"updateVisibility", "updateSize", "updatePosition">>
                  /\ element'.width = Px(element.size[1])
                  /\ element'.height = Px(element.size[2])
             ELSE /\ element'.calls = <<"updateVisibility">>
                  /\ element'.width = element.width
                  /\ element'.height = element.height
                  /\ element'.top = element.top
                  /\ element'.bottom = element.bottom
                  /\ element'.left = element.left
                  /\ element'.right = element.right]_vars

C7_Witness ==
    /\ elementOp = "updateInterface"
    /\ ~element.visible
    /\ element.calls = <<"updateVisibility">>
    /\ element.width # Px(element.size[1])
    /\ element.top # Px(element.position[2])

Attached(t, e) == t.parent[e] # Null /\ e \in t.children[t.parent[e]]

\* C8: attachTo(p) with p defined and different from the current parent leaves
\* this.parent = p and the DOM element a child of p and of no other node (so no
\* longer of the previous parent); attachTo(current parent) and
\* attachTo(undefined) change neither the parent field nor any DOM node.
C8_AttachTo ==
    treeOp.op = "attachTo" =>
        LET e == treeOp.el
            p == treeOp.arg
            b == treeOp.before
        IN  /\ ~tree.error
            /\ IF p # Undefined /\ p # b.parent[e]
               THEN /\ tree.parent[e] = p
                    /\ \A c \in Containers : e \in tree.children[c] <=> c = p
                    /\ \A x \in Elems \ {e} :
                           /\ tree.parent[x] = b.parent[x]
                           /\ \A c \in Containers :
                                  x \in tree.children[c] <=> x \in b.children[c]
               ELSE /\ tree.parent = b.parent
                    /\ tree.children = b.children

C8_Witness ==
    /\ treeOp.op = "attachTo"
    /\ Attached(treeOp.before, treeOp.el)
    /\ treeOp.arg \in Containers
    /\ treeOp.arg # treeOp.before.parent[treeOp.el]
    /\ treeOp.el \notin tree.children[treeOp.before.parent[treeOp.el]]

\* C9: destroy() on an attached element (its parent's DOM node contains its DOM
\* element) removes it from that node and sets this.parent to null; a destroy()
\* that follows a destroy() of the same element, or is made on an element with
\* no parent, changes nothing; no destroy() raises an error.
C9_Destroy ==
    treeOp.op = "destroy" =>
        LET e == treeOp.el
            b == treeOp.before
        IN  /\ ~tree.error
            /\ \A c \in Containers : e \notin tree.children[c]
            /\ Attached(b, e) => tree.parent[e] = Null
            /\ (b.parent[e] = Null
                  \/ (treeOp.prev.op = "destroy" /\ treeOp.prev.el = e)) =>
                   (tree.parent = b.parent /\ tree.children = b.children)

C9_Witness ==
    /\ treeOp.op = "destroy"
    /\ Attached(treeOp.before, treeOp.el)
    /\ tree.parent[treeOp.el] = Null
    /\ treeOp.el \notin tree.children[treeOp.before.parent[treeOp.el]]

----------------------------------------------------------------------------
(* Claims about the tabs, checked under SpecTabs, SpecDrag and SpecPage *)

\* C4: a tab whose closeable flag is false is never removed from its container.
C4_NotCloseableStays ==
    \A t \in Tabs : ~closeable[t] => t \in Range(group.options)

Place(seq, x) == CHOOSE i \in 1..Len(seq) : seq[i] = x
Without(seq, x) == SelectSeq(seq, LAMBDA y : y # x)

\* C6: after the button of a tab is dropped on the button of another tab of the
\* container, the dragged tab is immediately before the target when the
\* target's dragState is PREVIOUS and immediately after it when it is NEXT,
\* and the other tabs keep their relative order.
C6_DropOrder ==
    (/\ tabOp.op = "drop"
     /\ tabOp.src # NoTab /\ tabOp.src # tabOp.tab
     /\ tabOp.state \in {PREVIOUS, NEXT}) =>
        /\ Range(group.options) = Range(tabOp.before)
        /\ Len(group.options) = Len(tabOp.before)
        /\ tabOp.state = PREVIOUS =>
               Place(group.options, tabOp.src) + 1 = Place(group.options, tabOp.tab)
        /\ tabOp.state = NEXT =>
               Place(group.options, tabOp.src) = Place(group.options, tabOp.tab) + 1
        /\ Without(group.options, tabOp.src) = Without(tabOp.before, tabOp.src)

C6_Witness ==
    /\ tabOp.op = "drop"
    /\ tabOp.state = PREVIOUS
    /\ tabOp.src # NoTab
    /\ Place(tabOp.before, tabOp.src) > Place(tabOp.before, tabOp.tab) + 1
    /\ Place(group.options, tabOp.src) + 1 = Place(group.options, tabOp.tab)

\* C5: for a tab that defines update(), activate() leaves the tab active with
\* an update callback queued; while the tab is active a callback stays queued,
\* and every animation frame that finds the tab active calls update() and
\* queues the callback again.
C5_UpdateLoop ==
    page.hasUpdate =>
        /\ pageOp = "activate" => (page.active /\ page.pending >= 1)
        /\ page.active => page.pending >= 1
        /\ (pageOp = "frame" /\ page.active) =>
               (page.called >= 1 /\ page.pending = page.called)

C5_Witness ==
    /\ page.hasUpdate /\ page.active
    /\ pageOp = "frame"
    /\ page.frames >= 2
    /\ page.called >= 1 /\ page.pending >= 1

----------------------------------------------------------------------------
(* Claims about LeapMotion, checked under SpecLeap *)

\* A gesture of kind g is in the frame f.
Swipes(f) == {i \in 1..Len(f.gestures) : f.gestures[i].type = "swipe"}
Typed(f, ty) == \E i \in 1..Len(f.gestures) : f.gestures[i].type = ty
Occurs(f, g) ==
    CASE g = SWIPE       -> Swipes(f) # {}
      [] g = SWIPE_LEFT  -> \E i \in Swipes(f) : f.gestures[i].direction[1] <= 0
      [] g = SWIPE_RIGHT -> \E i \in Swipes(f) : f.gestures[i].direction[1] > 0
      [] g = SWIPE_UP    -> \E i \in Swipes(f) : f.gestures[i].direction[2] > 0
      [] g = SWIPE_DOWN  -> \E i \in Swipes(f) : f.gestures[i].direction[2] <= 0
      [] g = SWIPE_FRONT -> \E i \in Swipes(f) : f.gestures[i].direction[3] > 0
      [] g = SWIPE_BACK  -> \E i \in Swipes(f) : f.gestures[i].direction[3] <= 0
      [] g = CIRCLE      -> Typed(f, "circle")
      [] g = SCREEN_TAP  -> Typed(f, "screenTap")
      [] g = KEY_TAP     -> Typed(f, "keyTap")
      [] OTHER           -> FALSE

\* The gesture numbers checkGesture is asked about: the ten flags and one
\* number on either side of them.
Asked == (-1)..GestureCount

FlagsMatchFrame ==
    \A g \in Asked :
        LeapMotion_checkGesture(leap, g)
            <=> (leap.data.present /\ leap.data.valid /\ Occurs(leap.data, g))

\* C10 (as claimed): after every update(), checkGesture(g) is true exactly when
\* the most recent frame is valid and holds a gesture of kind g.
C10_Original == leapOp = "update" => FlagsMatchFrame

\* C10 (amended): after every update() made while gesturesEnabled is true,
\* checkGesture(g) is true exactly when the most recent frame is valid and
\* holds a gesture of kind g.
C10_Amended == (leapOp = "update" /\ leap.gesturesEnabled) => FlagsMatchFrame

C10_Witness ==
    /\ leapOp = "update" /\ leap.gesturesEnabled
    /\ leap.data.present /\ leap.data.valid
    /\ Len(leap.data.gestures) = 2
    /\ LeapMotion_checkGesture(leap, SWIPE_LEFT)
    /\ LeapMotion_checkGesture(leap, CIRCLE)
    /\ ~LeapMotion_checkGesture(leap, KEY_TAP)

----------------------------------------------------------------------------
(* Editor loaders *)

\* The extensions that a branch of Editor.loadModel tests for.
ModelFormats ==
    {"gcode", "obj", "awd", "amf", "assimp", "babylon", "blend", "3ds", "dae",
     "drc", "gltf", "glb", "ply", "vtk", "vtp", "prwm", "wrl", "vrml", "fbx",
     "x", "pcd", "svg", "stl", "json"}

UnknownModel(l) ==
    /\ l.loader = "loadModel"
    /\ FileSystem_getFileExtension(l.name) \notin ModelFormats

Calls(l, fn) == {i \in 1..Len(l.calls) : l.calls[i].fn = fn}

ModalDestroyed(l) ==
    /\ l.dom.parent[ModalElem] = Null
    /\ ModalElem \notin l.dom.children[DocumentBody]
    /\ l.modal.counter = 0
    /\ ~l.modal.running
    /\ ~l.modal.listening

\* C11: a call of Editor.loadModel with a file whose name has none of the
\* supported model formats leaves the loading modal it opened destroyed (out
\* of the document body, counter 0, timer stopped, resize listener removed),
\* has raised the unknown-file-format alert and nothing else: no file read is
\* started and no object is added to the scene, then or later.
C11_UnknownFormat ==
    \A j \in Loads :
        LET l == editor.loads[j]
        IN  UnknownModel(l) =>
                /\ ModalDestroyed(l)
                /\ l.calls = <<[fn |-> "alert", arg |-> "unknownFileFormat"]>>
                /\ Calls(l, "read") = {}
                /\ Calls(l, "addObject") = {}
                /\ l.phase = "done"

\* A model file of a format that is commented out of the loader has been
\* given to loadModel: its modal was shown (display "block") and is destroyed,
\* while a load of a supported format still shows its own modal.
C11_Witness ==
    \E j \in Loads, k \in Loads :
        /\ UnknownModel(editor.loads[j])
        /\ editor.loads[j].name = <<"m", "3mf">>
        /\ editor.loads[j].modal.display = "block"
        /\ ModalDestroyed(editor.loads[j])
        /\ Calls(editor.loads[j], "alert") # {}
        /\ editor.loads[k].loader = "loadModel"
        /\ editor.loads[k].phase = "reading"
        /\ ~ModalDestroyed(editor.loads[k])

ResourceLoaders == {"loadTexture", "loadVideoTexture", "loadAudio", "loadFont"}

\* C12: in a load made by loadTexture, loadVideoTexture, loadAudio or
\* loadFont, every call of onLoad comes after a call of Editor.addAction
\* (with the AddResourceAction of the loaded resource) made by that load.
C12_OnLoadAfterAddAction ==
    \A j \in Loads :
        LET l == editor.loads[j]
        IN  l.loader \in ResourceLoaders =>
                \A i \in Calls(l, "onLoad") :
                    \E k \in Calls(l, "addAction") : k < i

====
